---- MODULE Spec2Model ----
(***************************************************************************)
(* FITHUB (src/app.py): the data-access layer over the sqlite store.       *)
(*                                                                         *)
(* Every Streamlit session runs the script in a thread of its own against  *)
(* the one database file.  A handler that issues one SQL statement is one  *)
(* atomic step; create_user (two INSERTs, each committed on its own) and   *)
(* subscribe_to_plan (SELECT, SELECT, INSERT, no transaction around them)  *)
(* are several steps, and a session in the middle of one is at a position  *)
(* sess[t].pc other than "idle".                                           *)
(*                                                                         *)
(* Time is counted in days: `now` is datetime.now(), a timestamp and a     *)
(* date at once.  The store compares timestamps and dates as ISO strings,  *)
(* which orders them as the instants they write, so they are integers here.*)
(*                                                                         *)
(* Tables whose row ids nothing reads (trainers, subscriptions, followers) *)
(* are bags of rows: a table can hold a row twice unless a UNIQUE          *)
(* constraint refuses the second INSERT.  users is the sequence of its     *)
(* rows (AUTOINCREMENT ids, and no row is ever deleted: id = position).    *)
(* messages is the sequence of its rows likewise.  Columns no condition    *)
(* reads (name, mobile, title, description, price, difficulty, category,   *)
(* amount_paid, bio, ...) are left out.                                    *)
(*                                                                         *)
(* client[t] is st.session_state of browser session t (logged_in, user,    *)
(* page, chat_with): the only state outside the database file.             *)
(***************************************************************************)
EXTENDS Integers, Sequences, FiniteSets, Bags, TLC

\* ---------------------------------------------------------------- bounds
\* Signups and tokens issued, and the last day of the clock, where tokens expire.
MaxUsers == 2
MaxTokens == 3
MaxDay == 7
\* The ledger: the last day of the clock, plans ever created, days a plan lasts.
MaxDate == 2
MaxLedgerPlans == 1
MaxDuration == 2
\* The feed: plans ever created.
MaxPlans == 2
\* The chat: messages ever sent, and the last day of the clock.
MaxMessages == 3
MaxChatDay == 1

\* timedelta(days=7) of create_user and verify_user.
TokenDays == 7

Sessions == {1, 2}
Emails == {"alice@x.com", "bob@x.com"}
\* The password every signup chooses, and what a login may type.
Passwords == {"secret1"}
Attempts == Passwords \cup {"wrong-pw"}
AccountTypes == {"user", "trainer"}
\* What a chat message may say.
Bodies == {"hi"}

VARIABLES
    users,       \* table users: sequence of rows, id = position
    trainers,    \* table trainers: bag of user_id
    plans,       \* table fitness_plans: plan id -> row
    nextPlanId,  \* sqlite_sequence of fitness_plans (AUTOINCREMENT never reuses an id)
    subs,        \* table subscriptions: bag of rows
    followers,   \* table followers: bag of <<user_id, trainer_id>>
    now,         \* datetime.now(), in days
    nextToken,   \* the next value secrets.token_urlsafe draws (fresh every time)
    tokLog,      \* history: every token written to the store, in order
    subLog,      \* history: every subscription made, with the plan's duration then
    messages,    \* table messages: sequence of rows, id = position
    client,      \* st.session_state of each browser session
    sess,        \* each session's position inside a multi-statement handler
    ret          \* the last step taken: the handler, its arguments, what it returned

authVars == <<users, trainers, nextToken, tokLog>>
marketVars == <<plans, nextPlanId, subs, followers, subLog>>
chatVars == <<messages>>
\* The database file: every table.
store == <<users, trainers, plans, nextPlanId, subs, followers, messages>>
vars == <<users, trainers, plans, nextPlanId, subs, followers, now, nextToken, tokLog, subLog,
          messages, client, sess, ret>>

\* ------------------------------------------------------------- helpers
Min(S) == CHOOSE x \in S : \A y \in S : x <= y

\* ret: the handler, the statement of it the step ran, what the handler returned
\* ("pending": it has not returned yet), and its arguments.
NoRet == [op |-> "", stmt |-> "", res |-> "", email |-> "", u |-> 0, p |-> 0, tok |-> 0,
          again |-> FALSE]
Ret(op, stmt, res) == [NoRet EXCEPT !.op = op, !.stmt = stmt, !.res = res]
Idle == [pc |-> "idle", u |-> 0, p |-> 0, tok |-> 0, dur |-> 0]

\* st.session_state of a new session: logged_in False, user None, page 'login',
\* chat_with None.  chat_by is history: the id of the user who was logged in when
\* chat_with was last assigned.
NoUser == [id |-> 0, email |-> "", account_type |-> "", token |-> 0]
LoggedOut == [logged_in |-> FALSE, user |-> NoUser, page |-> "login",
              chat_with |-> 0, chat_by |-> 0]

\* Sessions are alike: a call that takes several statements starts in the first
\* session that is not inside one.  A handler of one statement runs in a session of
\* its own, at any time.
CanStart(t) == sess[t].pc = "idle" /\ \A s \in Sessions : sess[s].pc = "idle" => t <= s

\* The rows of bag B, each as often as the table holds it.
Count(B, row) == CopiesIn(row, B)
Insert(B, row) == B (+) SetToBag({row})
\* DELETE ... WHERE: every copy of every row in `gone` goes.
DeleteRows(B, gone) == [r \in (DOMAIN B) \ gone |-> B[r]]

\* ------------------------------------------------- password hashing & tokens
\* sha256(password + salt): one-way and collision-free, so the digest is the pair.
hash_password(password, salt) == <<password, salt>>

\* secrets.token_hex(32): a fresh value for every row.
generate_salt == Len(users) + 1

\* secrets.token_urlsafe(64): 512 random bits, never the same twice.
generate_auth_token == nextToken

\* users.email UNIQUE: an INSERT of a second row with this email raises IntegrityError.
NoUsersEmailUnique(email) == FALSE
users_email_unique(email) == \E i \in DOMAIN users : users[i].email = email

\* trainers.user_id UNIQUE.
trainers_user_id_unique(user_id) == Count(trainers, user_id) > 0

NoView == [id |-> 0, email |-> "", account_type |-> ""]
SessionView(i) == [id |-> i, email |-> users[i].email, account_type |-> users[i].account_type]

\* SELECT ... WHERE auth_token = ? AND token_expiry > ?  (now); fetchone.
TokenRowsExpiryInclusive(token) ==
    {i \in DOMAIN users : users[i].auth_token = token /\ users[i].token_expiry >= now}
TokenRows(token) ==
    {i \in DOMAIN users : users[i].auth_token = token /\ users[i].token_expiry > now}

verify_token(token) ==
    IF TokenRows(token) = {} THEN NoView ELSE SessionView(Min(TokenRows(token)))

\* The token and expiry a successful verify_user writes.
KeepToken(row, token) == row
RotateToken(row, token) ==
    [row EXCEPT !.auth_token = token, !.token_expiry = now + TokenDays]

\* The row create_user inserts: the salted hash, a new token, expiry in 7 days.
NewUserRowExpired(email, password, account_type, salt, tok) ==
    [email |-> email, password_hash |-> hash_password(password, salt), salt |-> salt,
     account_type |-> account_type, auth_token |-> tok, token_expiry |-> now]
NewUserRow(email, password, account_type, salt, tok) ==
    [email |-> email, password_hash |-> hash_password(password, salt), salt |-> salt,
     account_type |-> account_type, auth_token |-> tok, token_expiry |-> now + TokenDays]

\* create_user, lines 165-175: the INSERT into users and its commit.
create_user_users(t, email, password, account_type) ==
    /\ sess[t].pc = "idle"
    /\ IF users_email_unique(email)
       THEN \* sqlite3.IntegrityError: "Email already exists!"
            /\ ret' = [Ret("create_user", "insert_user", "Email already exists!")
                          EXCEPT !.email = email]
            /\ UNCHANGED <<users, nextToken, tokLog, sess>>
       ELSE /\ Len(users) < MaxUsers
            /\ nextToken <= MaxTokens
            /\ LET salt == generate_salt
                   tok == generate_auth_token
                   uid == Len(users) + 1
               IN  /\ users' = Append(users, NewUserRow(email, password, account_type, salt, tok))
                   /\ nextToken' = nextToken + 1
                   /\ tokLog' = Append(tokLog, [uid |-> uid, tok |-> tok, by |-> "signup", at |-> now])
                   /\ IF account_type = "trainer"
                      THEN /\ sess' = [sess EXCEPT ![t] = [Idle EXCEPT !.pc = "cu_trainer",
                                                                       !.u = uid, !.tok = tok]]
                           /\ ret' = [Ret("create_user", "insert_user", "pending")
                                         EXCEPT !.email = email, !.u = uid]
                      ELSE /\ sess' = sess
                           /\ ret' = [Ret("create_user", "insert_user", "ok")
                                         EXCEPT !.email = email, !.u = uid, !.tok = tok]
    /\ UNCHANGED <<trainers, now>>
    /\ UNCHANGED marketVars
    /\ UNCHANGED chatVars

\* create_user called on its own, in the first session that is not inside a call:
\* no session state is written.
CreateUserInsert(t, email, password, account_type) ==
    /\ CanStart(t)
    /\ create_user_users(t, email, password, account_type)
    /\ UNCHANGED client

\* create_user, lines 177-182: the INSERT into trainers, its commit, the return.
create_user_trainers(t) ==
    /\ sess[t].pc = "cu_trainer"
    /\ IF trainers_user_id_unique(sess[t].u)
       THEN /\ ret' = [Ret("create_user", "insert_trainer", "Email already exists!")
                          EXCEPT !.email = users[sess[t].u].email, !.u = sess[t].u]
            /\ UNCHANGED trainers
       ELSE /\ trainers' = Insert(trainers, sess[t].u)
            /\ ret' = [Ret("create_user", "insert_trainer", "ok")
                          EXCEPT !.email = users[sess[t].u].email,
                                 !.u = sess[t].u, !.tok = sess[t].tok]
    /\ sess' = [sess EXCEPT ![t] = Idle]
    /\ UNCHANGED <<users, nextToken, tokLog, now>>
    /\ UNCHANGED marketVars
    /\ UNCHANGED chatVars

CreateUserTrainer(t) == create_user_trainers(t) /\ UNCHANGED client

\* verify_user whose UPDATE has no WHERE id = ?: every row takes the new token.
verify_user_every_row(email, password) ==
    /\ LET rows == {i \in DOMAIN users : users[i].email = email}
       IN  IF rows # {} /\ hash_password(password, users[Min(rows)].salt)
                             = users[Min(rows)].password_hash
           THEN /\ nextToken <= MaxTokens
                /\ users' = [i \in DOMAIN users |->
                                [users[i] EXCEPT !.auth_token = generate_auth_token,
                                                 !.token_expiry = now + TokenDays]]
                /\ nextToken' = nextToken + 1
                /\ tokLog' = Append(tokLog, [uid |-> Min(rows), tok |-> generate_auth_token,
                                             by |-> "login", at |-> now])
                /\ ret' = [Ret("verify_user", "update", "ok")
                              EXCEPT !.email = email, !.u = Min(rows), !.tok = generate_auth_token]
           ELSE /\ ret' = [Ret("verify_user", "select", "None") EXCEPT !.email = email]
                /\ UNCHANGED <<users, nextToken, tokLog>>
    /\ UNCHANGED <<trainers, now, sess>>
    /\ UNCHANGED marketVars
    /\ UNCHANGED chatVars

\* verify_user.  The SELECT reads id, password_hash and salt, which no statement
\* ever changes, and no users row is ever deleted: the SELECT and the UPDATE of one
\* call are one step.
verify_user(email, password) ==
    /\ LET rows == {i \in DOMAIN users : users[i].email = email}
       IN  IF rows # {} /\ hash_password(password, users[Min(rows)].salt)
                             = users[Min(rows)].password_hash
           THEN /\ nextToken <= MaxTokens
                /\ users' = [users EXCEPT ![Min(rows)] = RotateToken(@, generate_auth_token)]
                /\ nextToken' = nextToken + 1
                /\ tokLog' = Append(tokLog, [uid |-> Min(rows), tok |-> generate_auth_token,
                                             by |-> "login", at |-> now])
                /\ ret' = [Ret("verify_user", "update", "ok")
                              EXCEPT !.email = email, !.u = Min(rows), !.tok = generate_auth_token]
           ELSE /\ ret' = [Ret("verify_user", "select", "None") EXCEPT !.email = email]
                /\ UNCHANGED <<users, nextToken, tokLog>>
    /\ UNCHANGED <<trainers, now, sess>>
    /\ UNCHANGED marketVars
    /\ UNCHANGED chatVars

\* verify_user called on its own: no session state is written.
VerifyUser(email, password) == verify_user(email, password) /\ UNCHANGED client

\* verify_token: one SELECT, nothing written.
VerifyTokenSliding(token) ==
    /\ ret' = [Ret("verify_token", "select", IF verify_token(token) = NoView THEN "None" ELSE "ok")
                  EXCEPT !.u = verify_token(token).id, !.tok = token]
    /\ users' = [i \in DOMAIN users |->
                    IF i \in TokenRows(token)
                    THEN [users[i] EXCEPT !.token_expiry = now + TokenDays] ELSE users[i]]
    /\ UNCHANGED <<trainers, nextToken, tokLog, now, sess, client>>
    /\ UNCHANGED marketVars
    /\ UNCHANGED chatVars
VerifyToken(token) ==
    /\ ret' = [Ret("verify_token", "select", IF verify_token(token) = NoView THEN "None" ELSE "ok")
                  EXCEPT !.u = verify_token(token).id, !.tok = token]
    /\ UNCHANGED <<now, sess, client>>
    /\ UNCHANGED authVars
    /\ UNCHANGED marketVars
    /\ UNCHANGED chatVars

\* ------------------------------------------------------- the session state
\* show_login_page, lines 888-899: verify_user, and on a match logged_in and user
\* are set (the dict verify_user returned, with the new token).
Login(t, email, password) ==
    /\ ~ client[t].logged_in /\ client[t].page = "login"
    /\ verify_user(email, password)
    /\ client' = [client EXCEPT ![t] =
                     IF ret'.res = "ok"
                     THEN [@ EXCEPT !.logged_in = TRUE,
                                    !.user = [id |-> ret'.u, email |-> email,
                                              account_type |-> users[ret'.u].account_type,
                                              token |-> ret'.tok]]
                     ELSE @]

\* The Logout button of either dashboard: three assignments to st.session_state
\* (logged_in, user, page); chat_with is not among them.
LogoutRevoking(t) ==
    /\ client[t].logged_in
    /\ client' = [client EXCEPT ![t] = [@ EXCEPT !.logged_in = FALSE, !.user = NoUser,
                                                 !.page = "login"]]
    /\ users' = [users EXCEPT ![client[t].user.id].auth_token = 0]
    /\ ret' = [Ret("logout", "", "") EXCEPT !.u = client[t].user.id, !.tok = client[t].user.token]
    /\ UNCHANGED <<trainers, nextToken, tokLog, now, sess>>
    /\ UNCHANGED marketVars
    /\ UNCHANGED chatVars
Logout(t) ==
    /\ client[t].logged_in
    /\ client' = [client EXCEPT ![t] = [@ EXCEPT !.logged_in = FALSE, !.user = NoUser,
                                                 !.page = "login"]]
    /\ ret' = [Ret("logout", "", "") EXCEPT !.u = client[t].user.id, !.tok = client[t].user.token]
    /\ UNCHANGED <<now, sess>>
    /\ UNCHANGED authVars
    /\ UNCHANGED marketVars
    /\ UNCHANGED chatVars

\* "Create Account" on the login page and "Back to Login" on the signup page.
GoSignup(t) ==
    /\ ~ client[t].logged_in /\ client[t].page = "login"
    /\ client' = [client EXCEPT ![t].page = "signup"]
    /\ ret' = Ret("go_signup", "", "")
    /\ UNCHANGED <<now, sess>>
    /\ UNCHANGED authVars
    /\ UNCHANGED marketVars
    /\ UNCHANGED chatVars
GoLogin(t) ==
    /\ ~ client[t].logged_in /\ client[t].page = "signup"
    /\ client' = [client EXCEPT ![t].page = "login"]
    /\ ret' = Ret("go_login", "", "")
    /\ UNCHANGED <<now, sess>>
    /\ UNCHANGED authVars
    /\ UNCHANGED marketVars
    /\ UNCHANGED chatVars

\* show_signup_page, after a create_user that succeeded: page = 'login'.
AfterSignupLoggedIn(c) == [c EXCEPT !.page = "login", !.logged_in = TRUE]
AfterSignup(c) == [c EXCEPT !.page = "login"]

\* The checks of the submitted form before create_user is called (the fields are
\* never left empty here).
SignupFormError(password, confirm_password) ==
    IF password # confirm_password THEN "Passwords do not match"
    ELSE IF Len(password) < 6 THEN "Password must be at least 6 characters"
    ELSE ""

\* show_signup_page, Sign Up: the form is checked, then create_user is called (here
\* up to the commit of its INSERT into users); a 'user' account's call has then
\* returned.
SignupSubmit(t, email, password, confirm_password, account_type) ==
    /\ ~ client[t].logged_in /\ client[t].page = "signup"
    /\ IF SignupFormError(password, confirm_password) # ""
       THEN /\ sess[t].pc = "idle"
            /\ ret' = [Ret("show_signup_page", "form",
                           SignupFormError(password, confirm_password))
                          EXCEPT !.email = email]
            /\ UNCHANGED <<client, sess, now>>
            /\ UNCHANGED authVars
            /\ UNCHANGED marketVars
            /\ UNCHANGED chatVars
       ELSE /\ create_user_users(t, email, password, account_type)
            /\ client' = [client EXCEPT ![t] = IF ret'.res = "ok" THEN AfterSignup(@) ELSE @]

\* show_signup_page, a trainer's signup: the rest of create_user and its return.
SignupTrainer(t) ==
    /\ ~ client[t].logged_in /\ client[t].page = "signup"
    /\ create_user_trainers(t)
    /\ client' = [client EXCEPT ![t] = IF ret'.res = "ok" THEN AfterSignup(@) ELSE @]

\* A day passes (the clock runs to day `last`).
Tick(last) ==
    /\ now < last
    /\ now' = now + 1
    /\ ret' = Ret("tick", "", "")
    /\ UNCHANGED <<users, trainers, nextToken, tokLog, sess>>
    /\ UNCHANGED marketVars
    /\ UNCHANGED <<chatVars, client>>

\* ------------------------------------------------------------ fitness plans
\* The accounts the dashboards act for: show_user_dashboard passes the id of a
\* 'user' account, show_trainer_dashboard the id of a 'trainer' account.
UserAccounts == {i \in DOMAIN users : users[i].account_type = "user"}
TrainerAccounts == {i \in DOMAIN users : users[i].account_type = "trainer"}
\* The plan ids a caller can hold: every id handed out so far, deleted or not.
PlanIds == 1..(nextPlanId - 1)
Durations == 1..MaxDuration

\* create_fitness_plan: is_active takes its DEFAULT 1 and no statement ever sets it.
CreatePlan(trainer_id, duration_days) ==
    /\ plans' = [i \in DOMAIN plans \cup {nextPlanId} |->
                    IF i = nextPlanId
                    THEN [trainer_id |-> trainer_id, duration_days |-> duration_days,
                          is_active |-> 1]
                    ELSE plans[i]]
    /\ nextPlanId' = nextPlanId + 1
    /\ ret' = [Ret("create_fitness_plan", "insert", "True") EXCEPT !.u = trainer_id, !.p = nextPlanId]
    /\ UNCHANGED <<subs, subLog, followers, now, sess>>
    /\ UNCHANGED authVars
    /\ UNCHANGED <<chatVars, client>>

\* The WHERE clause without its trainer_id condition.
PlanRowsAnyOwner(plan_id, trainer_id) == {i \in DOMAIN plans : i = plan_id}

\* The rows UPDATE/DELETE fitness_plans ... WHERE id = ? AND trainer_id = ? touch.
PlanRowsOwned(plan_id, trainer_id) ==
    {i \in DOMAIN plans : i = plan_id /\ plans[i].trainer_id = trainer_id}

\* update_fitness_plan: returns affected > 0.
UpdatePlan(plan_id, trainer_id, duration_days) ==
    /\ plans' = [i \in DOMAIN plans |->
                    IF i \in PlanRowsOwned(plan_id, trainer_id)
                    THEN [plans[i] EXCEPT !.duration_days = duration_days]
                    ELSE plans[i]]
    /\ ret' = [Ret("update_fitness_plan", "update",
                   IF PlanRowsOwned(plan_id, trainer_id) # {} THEN "True" ELSE "False")
                  EXCEPT !.u = trainer_id, !.p = plan_id]
    /\ UNCHANGED <<nextPlanId, subs, subLog, followers, now, sess>>
    /\ UNCHANGED authVars
    /\ UNCHANGED <<chatVars, client>>

\* delete_fitness_plan as it would be with ON DELETE CASCADE on
\* subscriptions.plan_id enforced.
DeletePlanCascade(plan_id, trainer_id) ==
    /\ plans' = [i \in (DOMAIN plans) \ {j \in DOMAIN plans :
                                            j = plan_id /\ plans[j].trainer_id = trainer_id}
                    |-> plans[i]]
    /\ subs' = DeleteRows(subs, {r \in BagToSet(subs) :
                                    /\ r.plan_id = plan_id /\ plan_id \in DOMAIN plans
                                    /\ plans[plan_id].trainer_id = trainer_id})
    /\ ret' = [Ret("delete_fitness_plan", "delete",
                   IF \E j \in DOMAIN plans : j = plan_id /\ plans[j].trainer_id = trainer_id
                   THEN "True" ELSE "False")
                  EXCEPT !.u = trainer_id, !.p = plan_id]
    /\ UNCHANGED <<nextPlanId, subLog, followers, now, sess>>
    /\ UNCHANGED authVars
    /\ UNCHANGED <<chatVars, client>>

\* delete_fitness_plan: returns affected > 0.  Foreign keys are not enforced and
\* nothing cascades: the plan's subscriptions stay.
DeletePlan(plan_id, trainer_id) ==
    /\ plans' = [i \in (DOMAIN plans) \ PlanRowsOwned(plan_id, trainer_id) |-> plans[i]]
    /\ ret' = [Ret("delete_fitness_plan", "delete",
                   IF PlanRowsOwned(plan_id, trainer_id) # {} THEN "True" ELSE "False")
                  EXCEPT !.u = trainer_id, !.p = plan_id]
    /\ UNCHANGED <<nextPlanId, subs, subLog, followers, now, sess>>
    /\ UNCHANGED authVars
    /\ UNCHANGED <<chatVars, client>>

\* ------------------------------------------------------------ subscriptions
\* The subscriptions rows of (user_id, plan_id), and how many the table holds.
SubRows(user_id, plan_id) ==
    {r \in BagToSet(subs) : r.user_id = user_id /\ r.plan_id = plan_id}
NumSubRows(user_id, plan_id) ==
    BagCardinality([r \in SubRows(user_id, plan_id) |-> subs[r]])

\* subscriptions UNIQUE(user_id, plan_id): the INSERT of a second row raises IntegrityError.
NoSubscriptionsUnique(user_id, plan_id) == FALSE
subscriptions_unique(user_id, plan_id) == SubRows(user_id, plan_id) # {}

\* SELECT id FROM subscriptions WHERE user_id = ? AND plan_id = ?  (expired or not).
UnexpiredSubscription(user_id, plan_id) ==
    \E r \in SubRows(user_id, plan_id) : r.end_date >= now
NoExistingSubscription(user_id, plan_id) == FALSE
SubscriptionOfStoredPlan(user_id, plan_id) ==
    SubRows(user_id, plan_id) # {} /\ plan_id \in DOMAIN plans
ExistingSubscription(user_id, plan_id) == SubRows(user_id, plan_id) # {}

\* is_subscribed: ... AND end_date >= today.
is_subscribed(user_id, plan_id) ==
    \E r \in SubRows(user_id, plan_id) : r.end_date >= now

\* get_user_subscriptions: the user's rows, JOINed to their plan and to the plan's
\* trainer; a row whose plan is gone is not returned.
get_user_subscriptions(user_id) ==
    {r \in BagToSet(subs) :
        /\ r.user_id = user_id
        /\ r.plan_id \in DOMAIN plans
        /\ plans[r.plan_id].trainer_id \in DOMAIN users}

\* My Subscriptions tab: days_left = (end_date - today).days, and the badge
\* "<days_left> days left" if days_left > 0, else "Expired".
days_left(sub) == sub.end_date - now
SubscriptionBadge(sub) == IF days_left(sub) > 0 THEN "days left" ELSE "Expired"

\* get_all_plans: the active plans JOINed to their trainer.
get_all_plans ==
    {p \in DOMAIN plans : plans[p].is_active = 1 /\ plans[p].trainer_id \in DOMAIN users}

\* Browse Plans tab: the Subscribe button of a listed plan is drawn when
\* is_subscribed(user, plan) is false.
OffersSubscribe(user_id, plan_id) ==
    plan_id \in get_all_plans /\ ~ is_subscribed(user_id, plan_id)

\* subscribe_to_plan, lines 327-334: the check for a row of (user_id, plan_id).
SubscribeCheck(t, user_id, plan_id) ==
    /\ CanStart(t)
    /\ IF ExistingSubscription(user_id, plan_id)
       THEN /\ ret' = [Ret("subscribe_to_plan", "select_sub", "Already subscribed to this plan")
                          EXCEPT !.u = user_id, !.p = plan_id]
            /\ sess' = sess
       ELSE /\ ret' = [Ret("subscribe_to_plan", "select_sub", "pending")
                          EXCEPT !.u = user_id, !.p = plan_id]
            /\ sess' = [sess EXCEPT ![t] = [Idle EXCEPT !.pc = "sub_plan",
                                                        !.u = user_id, !.p = plan_id]]
    /\ UNCHANGED <<plans, nextPlanId, subs, subLog, followers, now>>
    /\ UNCHANGED authVars
    /\ UNCHANGED <<chatVars, client>>

\* start_date = datetime.now().date(); end_date = start_date + timedelta(days=plan[0])
StartDate == now
EndDate(start, duration_days) == start + duration_days

\* subscribe_to_plan, lines 336-341: the plan's duration, or "Plan not found".
SubscribePlan(t) ==
    /\ sess[t].pc = "sub_plan"
    /\ IF sess[t].p \in DOMAIN plans
       THEN /\ ret' = [Ret("subscribe_to_plan", "select_plan", "pending")
                          EXCEPT !.u = sess[t].u, !.p = sess[t].p]
            /\ sess' = [sess EXCEPT ![t] = [@ EXCEPT !.pc = "sub_insert",
                                               !.dur = plans[sess[t].p].duration_days]]
       ELSE /\ ret' = [Ret("subscribe_to_plan", "select_plan", "Plan not found")
                          EXCEPT !.u = sess[t].u, !.p = sess[t].p]
            /\ sess' = [sess EXCEPT ![t] = Idle]
    /\ UNCHANGED <<plans, nextPlanId, subs, subLog, followers, now>>
    /\ UNCHANGED authVars
    /\ UNCHANGED <<chatVars, client>>

\* subscribe_to_plan, lines 343-352: the dates, read as the INSERT is issued, and
\* the INSERT.  No handler catches the IntegrityError of the UNIQUE constraint: the
\* call ends by raising it.
SubscribeInsert(t) ==
    /\ sess[t].pc = "sub_insert"
    /\ IF subscriptions_unique(sess[t].u, sess[t].p)
       THEN /\ ret' = [Ret("subscribe_to_plan", "insert", "raise IntegrityError")
                          EXCEPT !.u = sess[t].u, !.p = sess[t].p]
            /\ UNCHANGED <<subs, subLog>>
       ELSE /\ ret' = [Ret("subscribe_to_plan", "insert", "Subscription successful!")
                          EXCEPT !.u = sess[t].u, !.p = sess[t].p]
            /\ subs' = Insert(subs, [user_id |-> sess[t].u, plan_id |-> sess[t].p,
                                     start_date |-> StartDate,
                                     end_date |-> EndDate(StartDate, sess[t].dur)])
            /\ subLog' = subLog \cup {[user_id |-> sess[t].u, plan_id |-> sess[t].p,
                                        start_date |-> StartDate,
                                        duration_days |-> sess[t].dur]}
    /\ sess' = [sess EXCEPT ![t] = Idle]
    /\ UNCHANGED <<plans, nextPlanId, followers, now>>
    /\ UNCHANGED authVars
    /\ UNCHANGED <<chatVars, client>>

\* ---------------------------------------------------------------- followers
\* followers UNIQUE(user_id, trainer_id).
NoFollowersUnique(user_id, trainer_id) == FALSE
followers_unique(user_id, trainer_id) == Count(followers, <<user_id, trainer_id>>) > 0

\* follow_trainer: the INSERT, or "Already following this trainer" on IntegrityError.
Follow(user_id, trainer_id) ==
    /\ IF followers_unique(user_id, trainer_id)
       THEN /\ ret' = [Ret("follow_trainer", "insert", "Already following this trainer")
                          EXCEPT !.u = user_id, !.p = trainer_id]
            /\ followers' = followers
       ELSE /\ ret' = [Ret("follow_trainer", "insert", "Now following trainer!")
                          EXCEPT !.u = user_id, !.p = trainer_id]
            /\ followers' = Insert(followers, <<user_id, trainer_id>>)
    /\ UNCHANGED <<plans, nextPlanId, subs, subLog, now, sess>>
    /\ UNCHANGED authVars
    /\ UNCHANGED <<chatVars, client>>

\* unfollow_trainer returning True whether or not a row was deleted.
UnfollowAlwaysTrue(user_id, trainer_id) ==
    /\ followers' = DeleteRows(followers, {f \in BagToSet(followers) :
                                              f[1] = user_id /\ f[2] = trainer_id})
    /\ ret' = [Ret("unfollow_trainer", "delete", "True")
                  EXCEPT !.u = user_id, !.p = trainer_id]
    /\ UNCHANGED <<plans, nextPlanId, subs, subLog, now, sess>>
    /\ UNCHANGED authVars
    /\ UNCHANGED <<chatVars, client>>

\* DELETE FROM followers WHERE user_id = ? AND trainer_id = ?
UnfollowRowsOfUser(user_id, trainer_id) == {f \in BagToSet(followers) : f[1] = user_id}
UnfollowRows(user_id, trainer_id) ==
    {f \in BagToSet(followers) : f[1] = user_id /\ f[2] = trainer_id}

\* unfollow_trainer: returns affected > 0.
Unfollow(user_id, trainer_id) ==
    /\ followers' = DeleteRows(followers, UnfollowRows(user_id, trainer_id))
    /\ ret' = [Ret("unfollow_trainer", "delete",
                   IF UnfollowRows(user_id, trainer_id) # {} THEN "True" ELSE "False")
                  EXCEPT !.u = user_id, !.p = trainer_id]
    /\ UNCHANGED <<plans, nextPlanId, subs, subLog, now, sess>>
    /\ UNCHANGED authVars
    /\ UNCHANGED <<chatVars, client>>

is_following(user_id, trainer_id) == Count(followers, <<user_id, trainer_id>>) > 0

\* SELECT COUNT(*) FROM followers WHERE trainer_id = ?
get_trainer_followers_count(trainer_id) ==
    BagCardinality([f \in {g \in BagToSet(followers) : g[2] = trainer_id} |-> followers[f]])

\* ---------------------------------------------------------- personalized feed
\* JOIN followers f ON f.trainer_id = u.id AND f.user_id = ?: the rows joined to
\* one plan of trainer trainer_id.
FeedFollowRowsAnyUser(user_id, trainer_id) ==
    [f \in {g \in BagToSet(followers) : g[2] = trainer_id} |-> followers[f]]
FeedFollowRows(user_id, trainer_id) ==
    [f \in {g \in BagToSet(followers) : g[2] = trainer_id /\ g[1] = user_id} |-> followers[f]]

\* How many result rows get_personalized_feed(user_id) holds for plan p: one per
\* combination of the plan (is_active = 1), its trainer's users row, a followers row
\* and, LEFT JOINed, a subscriptions row of the user (or NULL when there is none).
FeedRowsOfPlan(user_id, p) ==
    IF p \in DOMAIN plans /\ plans[p].is_active = 1
    THEN Cardinality({i \in DOMAIN users : i = plans[p].trainer_id})
           * BagCardinality(FeedFollowRows(user_id, plans[p].trainer_id))
           * (IF NumSubRows(user_id, p) = 0 THEN 1 ELSE NumSubRows(user_id, p))
    ELSE 0

\* CASE WHEN s.id IS NOT NULL THEN 1 ELSE 0 END
FeedIsPurchased(user_id, p) == IF NumSubRows(user_id, p) > 0 THEN 1 ELSE 0

\* get_personalized_feed: the bag of its result rows.
get_personalized_feed(user_id) ==
    [row \in {[id |-> p, trainer_id |-> plans[p].trainer_id,
               is_purchased |-> FeedIsPurchased(user_id, p)] :
                  p \in {q \in DOMAIN plans : FeedRowsOfPlan(user_id, q) > 0}}
       |-> FeedRowsOfPlan(user_id, row.id)]

\* ------------------------------------------------------------------ chat
\* The row send_message inserts: is_read takes its DEFAULT 0, created_at its
\* DEFAULT CURRENT_TIMESTAMP.
NewMessageRead(sender_id, receiver_id, message) ==
    [sender_id |-> sender_id, receiver_id |-> receiver_id, message |-> message,
     is_read |-> 1, created_at |-> now]
NewMessage(sender_id, receiver_id, message) ==
    [sender_id |-> sender_id, receiver_id |-> receiver_id, message |-> message,
     is_read |-> 0, created_at |-> now]

\* The step repeats the call of the step before it: same handler, same arguments.
SameCall(op, u, p) == ret.op = op /\ ret.u = u /\ ret.p = p

\* send_message: one INSERT; returns True.
SendMessage(sender_id, receiver_id, message) ==
    /\ Len(messages) < MaxMessages
    /\ messages' = Append(messages, NewMessage(sender_id, receiver_id, message))
    /\ ret' = [Ret("send_message", "insert", "True")
                  EXCEPT !.u = sender_id, !.p = receiver_id,
                         !.again = SameCall("send_message", sender_id, receiver_id)]
    /\ UNCHANGED <<now, sess, client>>
    /\ UNCHANGED authVars
    /\ UNCHANGED marketVars

\* WHERE (m.sender_id = ? AND m.receiver_id = ?) OR (m.sender_id = ? AND
\* m.receiver_id = ?), over messages JOIN users u ON m.sender_id = u.id.
ConversationIdsOneWay(user1_id, user2_id) ==
    {i \in DOMAIN messages :
        /\ messages[i].sender_id \in DOMAIN users
        /\ messages[i].sender_id = user1_id /\ messages[i].receiver_id = user2_id}
ConversationIds(user1_id, user2_id) ==
    {i \in DOMAIN messages :
        /\ messages[i].sender_id \in DOMAIN users
        /\ \/ messages[i].sender_id = user1_id /\ messages[i].receiver_id = user2_id
           \/ messages[i].sender_id = user2_id /\ messages[i].receiver_id = user1_id}

\* ORDER BY m.created_at ASC: the rows by created_at; rows of one created_at stay
\* in the order the scan of messages met them, by id.
RECURSIVE OrderByCreatedAt(_)
OrderByCreatedAt(ids) ==
    IF ids = {} THEN <<>>
    ELSE LET first == CHOOSE i \in ids : \A j \in ids :
                         \/ messages[i].created_at < messages[j].created_at
                         \/ messages[i].created_at = messages[j].created_at /\ i <= j
         IN  <<first>> \o OrderByCreatedAt(ids \ {first})

\* get_conversation: the selected columns of the rows, in order.
get_conversation(user1_id, user2_id) ==
    LET order == OrderByCreatedAt(ConversationIds(user1_id, user2_id))
    IN  [k \in 1..Len(order) |->
            [id |-> order[k], sender_id |-> messages[order[k]].sender_id,
             receiver_id |-> messages[order[k]].receiver_id,
             message |-> messages[order[k]].message,
             created_at |-> messages[order[k]].created_at]]

\* The COUNT(*) without its is_read condition.
get_received_count(user_id) ==
    Cardinality({i \in DOMAIN messages : messages[i].receiver_id = user_id})

\* get_unread_count: SELECT COUNT(*) ... WHERE receiver_id = ? AND is_read = 0.
get_unread_count(user_id) ==
    Cardinality({i \in DOMAIN messages :
                    messages[i].receiver_id = user_id /\ messages[i].is_read = 0})

\* UPDATE messages SET is_read = 1 WHERE receiver_id = ? AND sender_id = ?
ToggleRead(row) == [row EXCEPT !.is_read = 1 - @]
SetRead(row) == [row EXCEPT !.is_read = 1]
\* The UPDATE without its sender_id condition.
MarkReadRowsOfReceiver(user_id, sender_id) ==
    {i \in DOMAIN messages : messages[i].receiver_id = user_id}

MarkReadRows(user_id, sender_id) ==
    {i \in DOMAIN messages :
        messages[i].receiver_id = user_id /\ messages[i].sender_id = sender_id}

\* mark_messages_read: one UPDATE; returns nothing.
MarkRead(user_id, sender_id) ==
    /\ messages' = [i \in DOMAIN messages |->
                      IF i \in MarkReadRows(user_id, sender_id)
                      THEN SetRead(messages[i]) ELSE messages[i]]
    /\ ret' = [Ret("mark_messages_read", "update", "None")
                  EXCEPT !.u = user_id, !.p = sender_id,
                         !.again = SameCall("mark_messages_read", user_id, sender_id)]
    /\ UNCHANGED <<now, sess, client>>
    /\ UNCHANGED authVars
    /\ UNCHANGED marketVars

\* The Chat buttons, the contact buttons and "Open Chat" of either dashboard:
\* st.session_state.chat_with = the account chosen (never the own account).
OpenChat(t, partner) ==
    /\ client[t].logged_in
    /\ partner \in DOMAIN users /\ partner # client[t].user.id
    /\ client' = [client EXCEPT ![t] = [@ EXCEPT !.chat_with = partner,
                                                 !.chat_by = client[t].user.id]]
    /\ ret' = [Ret("open_chat", "", "") EXCEPT !.u = client[t].user.id, !.p = partner]
    /\ UNCHANGED <<now, sess>>
    /\ UNCHANGED authVars
    /\ UNCHANGED marketVars
    /\ UNCHANGED chatVars

\* The Chat tab, drawn in every run of a dashboard: if chat_with is set and is the
\* id of a users row, mark_messages_read(user['id'], chat_with).
ShowChat(t) ==
    /\ client[t].logged_in
    /\ client[t].chat_with # 0 /\ client[t].chat_with \in DOMAIN users
    /\ MarkRead(client[t].user.id, client[t].chat_with)

\* init_db on a new file: every table empty.
Init ==
    /\ users = <<>>
    /\ trainers = EmptyBag
    /\ plans = <<>>
    /\ nextPlanId = 1
    /\ subs = EmptyBag
    /\ subLog = {}
    /\ followers = EmptyBag
    /\ now = 0
    /\ nextToken = 1
    /\ tokLog = <<>>
    /\ messages = <<>>
    /\ client = [t \in Sessions |-> LoggedOut]
    /\ sess = [t \in Sessions |-> Idle]
    /\ ret = NoRet

NextAuth ==
    \/ \E t \in Sessions, e \in Emails, p \in Passwords, a \in AccountTypes :
          CreateUserInsert(t, e, p, a)
    \/ \E t \in Sessions : CreateUserTrainer(t)
    \/ \E e \in Emails, p \in Attempts : VerifyUser(e, p)
    \/ Tick(MaxDay)

SpecAuth == Init /\ [][NextAuth]_vars

\* The store after signups on day 0: alice and dave are 'user' accounts, bob and
\* carol trainers.
SeedAccounts ==
    <<[email |-> "alice@x.com", account_type |-> "user"],
      [email |-> "bob@x.com", account_type |-> "trainer"],
      [email |-> "dave@x.com", account_type |-> "user"],
      [email |-> "carol@x.com", account_type |-> "trainer"]>>

InitSeeded(n) ==
    /\ users = [i \in 1..n |->
                  [email |-> SeedAccounts[i].email,
                   password_hash |-> hash_password("secret1", i), salt |-> i,
                   account_type |-> SeedAccounts[i].account_type,
                   auth_token |-> i, token_expiry |-> TokenDays]]
    /\ trainers = SetToBag({i \in 1..n : SeedAccounts[i].account_type = "trainer"})
    /\ plans = <<>>
    /\ nextPlanId = 1
    /\ subs = EmptyBag
    /\ subLog = {}
    /\ followers = EmptyBag
    /\ now = 0
    /\ nextToken = n + 1
    /\ tokLog = [i \in 1..n |-> [uid |-> i, tok |-> i, by |-> "signup", at |-> 0]]
    /\ messages = <<>>
    /\ client = [t \in Sessions |-> LoggedOut]
    /\ sess = [t \in Sessions |-> Idle]
    /\ ret = NoRet

\* The ledger: alice in two sessions and bob; plans of one or more days; the days pass.
NextLedger ==
    \/ \E tr \in TrainerAccounts, d \in Durations :
          nextPlanId <= MaxLedgerPlans /\ CreatePlan(tr, d)
    \/ \E p \in PlanIds, tr \in TrainerAccounts, d \in Durations : UpdatePlan(p, tr, d)
    \/ \E p \in PlanIds, tr \in TrainerAccounts : DeletePlan(p, tr)
    \/ \E t \in Sessions, u \in UserAccounts, p \in PlanIds : SubscribeCheck(t, u, p)
    \/ \E t \in Sessions : SubscribePlan(t)
    \/ \E t \in Sessions : SubscribeInsert(t)
    \/ Tick(MaxDate)

SpecLedger == InitSeeded(2) /\ [][NextLedger]_vars

\* The social graph and the feed: all four accounts, on one day; alice subscribes,
\* in one session.
NextSocial ==
    \/ \E u \in UserAccounts, tr \in TrainerAccounts : Follow(u, tr)
    \/ \E u \in UserAccounts, tr \in TrainerAccounts : Unfollow(u, tr)
    \/ \E tr \in TrainerAccounts : nextPlanId <= MaxPlans /\ CreatePlan(tr, MaxDuration)
    \/ \E p \in PlanIds, tr \in TrainerAccounts : UpdatePlan(p, tr, MaxDuration)
    \/ \E p \in PlanIds, tr \in TrainerAccounts : DeletePlan(p, tr)
    \/ \E p \in PlanIds : SubscribeCheck(1, 1, p)
    \/ SubscribePlan(1)
    \/ SubscribeInsert(1)

SpecSocial == InitSeeded(4) /\ [][NextSocial]_vars

\* The chats the Messages tab opens here: alice's with bob and with dave (a chat
\* is with another account: chat_options leaves the own id out).
ChatPairs == {c \in (DOMAIN users) \X (DOMAIN users) : c[1] # c[2] /\ 1 \in {c[1], c[2]}}

\* The chat: both sides of each chat write and open it, over days.
NextChat ==
    \/ \E c \in ChatPairs, b \in Bodies : SendMessage(c[1], c[2], b)
    \/ \E c \in ChatPairs : MarkRead(c[1], c[2])
    \/ Tick(MaxChatDay)

SpecChat == InitSeeded(3) /\ [][NextChat]_vars

\* Two sessions of alice log in and out while tokens are looked up and the days pass.
NextSession ==
    \/ \E t \in Sessions, e \in Emails, p \in Attempts : Login(t, e, p)
    \/ \E t \in Sessions : Logout(t)
    \/ \E t \in Sessions : GoSignup(t)
    \/ \E t \in Sessions : GoLogin(t)
    \/ \E tok \in 1..(nextToken - 1) : VerifyToken(tok)
    \/ Tick(MaxDay)

SpecSession == InitSeeded(1) /\ [][NextSession]_vars

\* The feed over days: alice follows bob, buys his plan, and the days pass.
NextFeed ==
    \/ \E u \in UserAccounts, tr \in TrainerAccounts : Follow(u, tr)
    \/ \E u \in UserAccounts, tr \in TrainerAccounts : Unfollow(u, tr)
    \/ \E tr \in TrainerAccounts, d \in Durations :
          nextPlanId <= MaxLedgerPlans /\ CreatePlan(tr, d)
    \/ \E u \in UserAccounts, p \in PlanIds : SubscribeCheck(1, u, p)
    \/ SubscribePlan(1)
    \/ SubscribeInsert(1)
    \/ Tick(MaxDate)

SpecFeed == InitSeeded(2) /\ [][NextFeed]_vars

\* Tokens: 'user' accounts sign up (one INSERT each), log in, tokens are looked up,
\* and the days pass.
NextToken ==
    \/ \E e \in Emails, p \in Passwords : CreateUserInsert(1, e, p, "user")
    \/ \E e \in Emails, p \in Attempts : VerifyUser(e, p)
    \/ \E tok \in 1..(nextToken - 1) : VerifyToken(tok)
    \/ Tick(MaxDay)

SpecToken == Init /\ [][NextToken]_vars

\* Every handler, on one day: alice has signed up; a trainer signs up; logins,
\* token lookups, a plan, subscriptions, follows, and alice writes to the trainer.
NextRetry ==
    \/ \E e \in Emails, p \in Passwords : CreateUserInsert(1, e, p, "trainer")
    \/ CreateUserTrainer(1)
    \/ \E e \in Emails, p \in Passwords : VerifyUser(e, p)
    \/ \E tok \in 1..(nextToken - 1) : VerifyToken(tok)
    \/ \E tr \in TrainerAccounts : nextPlanId <= MaxLedgerPlans /\ CreatePlan(tr, MaxDuration)
    \/ \E u \in UserAccounts, p \in 1..MaxLedgerPlans : SubscribeCheck(1, u, p)
    \/ SubscribePlan(1)
    \/ SubscribeInsert(1)
    \/ \E u \in UserAccounts, tr \in TrainerAccounts : Follow(u, tr)
    \/ \E u \in UserAccounts, tr \in TrainerAccounts : Unfollow(u, tr)
    \/ \E u \in UserAccounts, tr \in TrainerAccounts, b \in Bodies : SendMessage(u, tr, b)
    \/ \E u \in UserAccounts, tr \in TrainerAccounts : MarkRead(tr, u)

SpecRetry == InitSeeded(1) /\ [][NextRetry]_vars

\* The plans of two trainers: each of them creates plans and calls
\* update_fitness_plan and delete_fitness_plan with any plan id, their own or not.
NextPlans ==
    \/ \E tr \in TrainerAccounts, d \in Durations :
          nextPlanId <= MaxPlans /\ CreatePlan(tr, d)
    \/ \E p \in PlanIds, tr \in TrainerAccounts, d \in Durations : UpdatePlan(p, tr, d)
    \/ \E p \in PlanIds, tr \in TrainerAccounts : DeletePlan(p, tr)

SpecPlans == InitSeeded(4) /\ [][NextPlans]_vars

\* What a signup form holds as password and as its confirmation.
FormPasswords == Passwords \cup {"pw"}

\* The login and signup pages of two browser sessions, from an empty store:
\* accounts are made on the signup page and logged in to on the login page.
NextSignup ==
    \/ \E t \in Sessions, e \in Emails, p \in FormPasswords, c \in FormPasswords,
          a \in AccountTypes : SignupSubmit(t, e, p, c, a)
    \/ \E t \in Sessions : SignupTrainer(t)
    \/ \E t \in Sessions, e \in Emails, p \in Passwords : Login(t, e, p)
    \/ \E t \in Sessions : Logout(t)
    \/ \E t \in Sessions : GoSignup(t)
    \/ \E t \in Sessions : GoLogin(t)

SpecSignup == Init /\ [][NextSignup]_vars

\* The store with the accounts of earlier signups, whose tokens are none of those
\* the logins of the run make.
InitReturning(n) ==
    /\ users = [i \in 1..n |->
                  [email |-> SeedAccounts[i].email,
                   password_hash |-> hash_password("secret1", i), salt |-> i,
                   account_type |-> SeedAccounts[i].account_type,
                   auth_token |-> 0 - i, token_expiry |-> TokenDays]]
    /\ trainers = SetToBag({i \in 1..n : SeedAccounts[i].account_type = "trainer"})
    /\ plans = <<>>
    /\ nextPlanId = 1
    /\ subs = EmptyBag
    /\ subLog = {}
    /\ followers = EmptyBag
    /\ now = 0
    /\ nextToken = 1
    /\ tokLog = [i \in 1..n |-> [uid |-> i, tok |-> 0 - i, by |-> "signup", at |-> 0]]
    /\ messages = <<>>
    /\ client = [t \in Sessions |-> LoggedOut]
    /\ sess = [t \in Sessions |-> Idle]
    /\ ret = NoRet

\* The accounts that use another browser than the one of the run.
Outsiders == {u \in DOMAIN users : users[u].email \notin Emails}

\* One browser, used by alice and by bob in turn: they log in, open chats, the
\* dashboard draws its Chat tab, they log out; dave writes to them from elsewhere.
NextInbox ==
    \/ \E e \in Emails, p \in Passwords : Login(1, e, p)
    \/ Logout(1)
    \/ \E partner \in DOMAIN users : OpenChat(1, partner)
    \/ ShowChat(1)
    \/ \E s \in Outsiders, r \in DOMAIN users, b \in Bodies :
          s # r /\ SendMessage(s, r, b)

SpecInbox == InitReturning(3) /\ [][NextInbox]_vars

\* ------------------------------------------------------------ the claims

\* Whether the create_user call that wrote user uid has returned.
Returned(uid) == users[uid].account_type = "user" \/ Count(trainers, uid) > 0

\* C1: once a login of user U has succeeded, no token written for U before it
\* verifies any more, and at no time does more than one token value verify for U.
C1_SingleActiveToken ==
    /\ \A i, j \in DOMAIN tokLog :
          (i < j /\ tokLog[i].uid = tokLog[j].uid /\ tokLog[j].by = "login")
             => verify_token(tokLog[i].tok) = NoView
    /\ \A u \in DOMAIN users :
          Cardinality({k \in 1..nextToken : verify_token(k).id = u}) <= 1

\* Two logins of one user have succeeded and the newest token verifies.
C1_Witness ==
    \E i, j \in DOMAIN tokLog :
        /\ i < j /\ tokLog[i].uid = tokLog[j].uid
        /\ tokLog[i].by = "login" /\ tokLog[j].by = "login"
        /\ verify_token(tokLog[j].tok) = SessionView(tokLog[j].uid)

\* C2: verify_token(k) is the view of user u exactly when u's stored token is k and
\* u's stored expiry is strictly later than now; otherwise it is the invalid result.
C2_VerifyTokenIff ==
    \A k \in 0..nextToken :
        /\ \A u \in DOMAIN users :
              (verify_token(k) = SessionView(u))
                 <=> (users[u].auth_token = k /\ users[u].token_expiry > now)
        /\ (verify_token(k) = NoView)
              <=> ~ \E u \in DOMAIN users :
                       users[u].auth_token = k /\ users[u].token_expiry > now

\* A stored token at the very instant of its expiry: it no longer verifies.
C2_Witness ==
    \E u \in DOMAIN users :
        users[u].token_expiry = now /\ verify_token(users[u].auth_token) = NoView

\* C3 as claimed: the token a successful create_user returned verifies, as the new
\* user, at every time before its 7-day expiry.
C3_SignupTokenVerifiesUntilExpiry ==
    \A i \in DOMAIN tokLog :
        (tokLog[i].by = "signup" /\ Returned(tokLog[i].uid)
           /\ now < tokLog[i].at + TokenDays)
          => verify_token(tokLog[i].tok) = SessionView(tokLog[i].uid)

\* C3 amended: the token a successful create_user returned verifies, as the new
\* user, at every time before its 7-day expiry at which no verify_user for that
\* user has succeeded yet.
C3_SignupTokenVerifiesUntilLogin ==
    \A i \in DOMAIN tokLog :
        (tokLog[i].by = "signup" /\ Returned(tokLog[i].uid)
           /\ now < tokLog[i].at + TokenDays
           /\ ~ \E j \in DOMAIN tokLog : tokLog[j].uid = tokLog[i].uid /\ tokLog[j].by = "login")
          => verify_token(tokLog[i].tok) = SessionView(tokLog[i].uid)

\* A signup token on the last day before its expiry, never rotated, still verifying.
C3_Witness ==
    \E i \in DOMAIN tokLog :
        /\ tokLog[i].by = "signup" /\ Returned(tokLog[i].uid)
        /\ now = tokLog[i].at + TokenDays - 1
        /\ ~ \E j \in DOMAIN tokLog : tokLog[j].uid = tokLog[i].uid /\ tokLog[j].by = "login"
        /\ verify_token(tokLog[i].tok) = SessionView(tokLog[i].uid)

\* The step is the first statement of a create_user(email = e) call.
CreateUserCalled(e) ==
    ret'.op = "create_user" /\ ret'.stmt = "insert_user" /\ ret'.email = e

\* C4: no two users rows share an email, whatever the interleaving of create_user
\* calls; a create_user whose email is already stored returns "Email already
\* exists!" and adds no users row and no trainers row.
C4_EmailUnique ==
    /\ [](\A i, j \in DOMAIN users : users[i].email = users[j].email => i = j)
    /\ [][\A e \in Emails :
            (CreateUserCalled(e) /\ \E i \in DOMAIN users : users[i].email = e)
               => /\ ret'.res = "Email already exists!"
                  /\ users' = users
                  /\ trainers' = trainers]_vars

\* A signup with a stored email was just refused, while another signup is under way.
C4_Witness ==
    /\ ret.op = "create_user" /\ ret.res = "Email already exists!"
    /\ \E i \in DOMAIN users : users[i].email = ret.email
    /\ \E t \in Sessions : sess[t].pc = "cu_trainer"

\* The step ran statement stmt of subscribe_to_plan(u, p).
SubscribeStep(stmt, u, p) ==
    ret'.op = "subscribe_to_plan" /\ ret'.stmt = stmt /\ ret'.u = u /\ ret'.p = p

\* C5: a subscribe_to_plan(u, p) that finds no row of (u, p) and finds the plan
\* inserts the row and succeeds; any later subscribe_to_plan(u, p) returns "Already
\* subscribed to this plan" and adds no row, on whatever day it is called, the days
\* after the row's end_date included.
C5_SecondSubscribeRejected ==
    [][\A u \in DOMAIN users, p \in PlanIds :
         /\ (SubscribeStep("select_sub", u, p) /\ SubRows(u, p) # {})
               => ret'.res = "Already subscribed to this plan" /\ subs' = subs
         /\ (SubscribeStep("select_sub", u, p) /\ SubRows(u, p) = {})
               => ret'.res = "pending" /\ subs' = subs
         /\ (SubscribeStep("select_plan", u, p) /\ p \in DOMAIN plans)
               => ret'.res = "pending" /\ subs' = subs
         /\ (SubscribeStep("insert", u, p) /\ SubRows(u, p) = {})
               => /\ ret'.res = "Subscription successful!"
                  /\ \E r \in DOMAIN subs' :
                        /\ r.user_id = u /\ r.plan_id = p
                        /\ subs' = Insert(subs, r)]_vars

\* The second call was just refused although the first subscription has expired
\* and the plan is still there.
C5_Witness ==
    /\ ret.op = "subscribe_to_plan" /\ ret.res = "Already subscribed to this plan"
    /\ ret.p \in DOMAIN plans
    /\ \E r \in SubRows(ret.u, ret.p) : r.end_date < now

\* C6: the subscriptions table never holds two rows of one (user_id, plan_id),
\* also when two calls for the pair have both passed the check for a row.
C6_OneSubscriptionPerPair ==
    \A u \in DOMAIN users, p \in PlanIds : NumSubRows(u, p) <= 1

\* Two calls for one pair had both passed the check; the second INSERT was refused.
C6_Witness ==
    /\ ret.op = "subscribe_to_plan" /\ ret.res = "raise IntegrityError"
    /\ NumSubRows(ret.u, ret.p) = 1

\* C7 as claimed: a subscription made on day start_date to a plan of duration_days
\* = D is active on every day up to start_date + D - 1 and on no later day.
C7_ActiveThroughLastDay ==
    \A h \in subLog :
        is_subscribed(h.user_id, h.plan_id)
           <=> now <= h.start_date + h.duration_days - 1

\* The day after the claimed last day of a subscription, and is_subscribed is still
\* true.
C7_Witness ==
    \E h \in subLog :
        /\ now = h.start_date + h.duration_days
        /\ is_subscribed(h.user_id, h.plan_id)

\* The step is a follow_trainer(u, tr) / an unfollow_trainer(u, tr).
FollowCalled(u, tr) == ret'.op = "follow_trainer" /\ ret'.u = u /\ ret'.p = tr
UnfollowCalled(u, tr) == ret'.op = "unfollow_trainer" /\ ret'.u = u /\ ret'.p = tr

\* C8: the followers table never holds two rows of one (user_id, trainer_id); a
\* follow_trainer(u, tr) called while the edge is there returns "Already following
\* this trainer" and leaves the table as it is.
C8_FollowTwiceRejected ==
    /\ [](\A u, tr \in DOMAIN users : Count(followers, <<u, tr>>) <= 1)
    /\ [][\A u, tr \in DOMAIN users :
            (FollowCalled(u, tr) /\ Count(followers, <<u, tr>>) > 0)
               => /\ ret'.res = "Already following this trainer"
                  /\ followers' = followers]_vars

\* A follow of an edge that is there was just refused.
C8_Witness ==
    /\ ret.op = "follow_trainer" /\ ret.res = "Already following this trainer"
    /\ Count(followers, <<ret.u, ret.p>>) = 1

\* C9: unfollow_trainer(u, tr) leaves is_following(u, tr) false, removes the edge
\* (u, tr) and no other, and leaves get_trainer_followers_count(tr) at the number of
\* tr's other followers; a follow_trainer(u, tr) right after it succeeds; and a
\* follow_trainer(u, tr) leaves is_following(u, tr) true.
C9_FollowUnfollow ==
    [][\A u, tr \in DOMAIN users :
         /\ UnfollowCalled(u, tr)
               => /\ Count(followers', <<u, tr>>) = 0
                  /\ \A f \in (DOMAIN users) \X (DOMAIN users) :
                        f # <<u, tr>> => Count(followers', f) = Count(followers, f)
                  /\ BagCardinality([f \in {g \in BagToSet(followers') : g[2] = tr}
                                        |-> followers'[f]])
                       = Cardinality({g \in BagToSet(followers) : g[2] = tr /\ g[1] # u})
         /\ (FollowCalled(u, tr) /\ ret.op = "unfollow_trainer" /\ ret.u = u /\ ret.p = tr)
               => ret'.res = "Now following trainer!"
         /\ FollowCalled(u, tr) => Count(followers', <<u, tr>>) = 1]_vars

\* An edge was just removed after it had been followed, and the user's other edge
\* and the trainer's other follower are still there.
C9_Witness ==
    /\ ret.op = "unfollow_trainer" /\ ret.res = "True"
    /\ ~ is_following(ret.u, ret.p)
    /\ \E tr \in DOMAIN users : tr # ret.p /\ is_following(ret.u, tr)
    /\ get_trainer_followers_count(ret.p) = 1

\* How many rows of get_personalized_feed(u) show plan p.
FeedCopies(u, p) ==
    BagCardinality([row \in {r \in BagToSet(get_personalized_feed(u)) : r.id = p}
                      |-> get_personalized_feed(u)[row]])

\* C10: get_personalized_feed(u) shows plan p, once, exactly when the plan is
\* stored with is_active = 1 and a followers row (u, p's trainer) exists; a plan of
\* a trainer u does not follow, or a deleted plan, is not shown.
C10_FeedIffFollowed ==
    \A u \in DOMAIN users, p \in PlanIds :
        FeedCopies(u, p) =
            IF /\ p \in DOMAIN plans
               /\ plans[p].is_active = 1
               /\ Count(followers, <<u, plans[p].trainer_id>>) > 0
            THEN 1 ELSE 0

\* One user's feed shows a plan it has bought and not another trainer's plan,
\* while another user follows that other trainer.
C10_Witness ==
    \E u, v \in DOMAIN users, p, q \in DOMAIN plans :
        /\ FeedCopies(u, p) = 1 /\ NumSubRows(u, p) = 1
        /\ FeedCopies(u, q) = 0
        /\ FeedCopies(v, q) = 1

\* C11 as claimed: every row of get_personalized_feed(u) carries is_purchased = 1
\* exactly when is_subscribed(u, the row's plan) is true on the same day.
C11_IsPurchasedIsActive ==
    \A u \in DOMAIN users : \A row \in BagToSet(get_personalized_feed(u)) :
        row.is_purchased = (IF is_subscribed(u, row.id) THEN 1 ELSE 0)

\* The feed shows a plan as purchased whose subscription has ended.
C11_Witness ==
    \E u \in DOMAIN users : \E row \in BagToSet(get_personalized_feed(u)) :
        /\ row.is_purchased = 1
        /\ ~ is_subscribed(u, row.id)
        /\ \E r \in SubRows(u, row.id) : r.end_date < now

\* The messages to user_id that the next state holds unread.
UnreadAfter(user_id) ==
    Cardinality({i \in DOMAIN messages' :
                    messages'[i].receiver_id = user_id /\ messages'[i].is_read = 0})

\* C12: a mark_messages_read(u, s) that follows a mark_messages_read(u, s) leaves
\* the messages table and get_unread_count(u) as the first call left them.
C12_MarkReadIdempotent ==
    [][(/\ ret.op = "mark_messages_read" /\ ret'.op = "mark_messages_read"
        /\ ret'.u = ret.u /\ ret'.p = ret.p)
          => /\ messages' = messages
             /\ UnreadAfter(ret.u) = get_unread_count(ret.u)]_vars

\* The second of two calls in succession has run: the sender's messages are read,
\* another sender's message is still unread.
C12_Witness ==
    /\ ret.op = "mark_messages_read" /\ ret.again
    /\ \E i \in DOMAIN messages :
          /\ messages[i].receiver_id = ret.u /\ messages[i].sender_id = ret.p
          /\ messages[i].is_read = 1
    /\ get_unread_count(ret.u) > 0

\* C13: get_conversation(A, B) and get_conversation(B, A) are the same sequence:
\* every message between A and B, each once, by created_at ascending.
C13_ConversationSymmetric ==
    \A A, B \in DOMAIN users :
        LET conv == get_conversation(A, B)
        IN  /\ conv = get_conversation(B, A)
            /\ {conv[k].id : k \in 1..Len(conv)}
                 = {i \in DOMAIN messages :
                      {messages[i].sender_id, messages[i].receiver_id} = {A, B}}
            /\ \A k, l \in 1..Len(conv) :
                  /\ k < l => conv[k].created_at <= conv[l].created_at
                  /\ k # l => conv[k].id # conv[l].id
            /\ \A k \in 1..Len(conv) :
                  /\ conv[k].sender_id = messages[conv[k].id].sender_id
                  /\ conv[k].receiver_id = messages[conv[k].id].receiver_id
                  /\ conv[k].message = messages[conv[k].id].message

\* A conversation of messages in both directions, sent on different days, while a
\* message of another conversation lies between them in the table.
C13_Witness ==
    \E A, B \in DOMAIN users :
        LET conv == get_conversation(A, B)
        IN  /\ Len(conv) = 2
            /\ conv[1].sender_id = A /\ conv[2].sender_id = B
            /\ conv[1].created_at < conv[2].created_at
            /\ conv[2].id = conv[1].id + 2

\* C15: a stored message keeps its sender_id, receiver_id and message and stays in
\* the table; its is_read is 0 when it is inserted and never goes from 1 back to 0.
C15_MessagesImmutable ==
    [][/\ \A i \in DOMAIN messages :
            /\ i \in DOMAIN messages'
            /\ messages'[i].sender_id = messages[i].sender_id
            /\ messages'[i].receiver_id = messages[i].receiver_id
            /\ messages'[i].message = messages[i].message
            /\ messages[i].is_read = 1 => messages'[i].is_read = 1
       /\ \A i \in (DOMAIN messages') \ (DOMAIN messages) : messages'[i].is_read = 0]_vars

\* A message has been read, and a later one was just sent and is unread.
C15_Witness ==
    /\ ret.op = "send_message"
    /\ Len(messages) >= 2
    /\ messages[1].is_read = 1
    /\ messages[Len(messages)].is_read = 0

\* C14 as claimed: in every state every users row with account_type 'trainer' has
\* exactly one trainers row.
C14_TrainerHasProfile ==
    \A i \in DOMAIN users :
        users[i].account_type = "trainer" => Count(trainers, i) = 1

\* A trainer's users row is committed and create_user has not yet inserted the
\* trainers row.
C14_Witness ==
    \E t \in Sessions :
        /\ sess[t].pc = "cu_trainer"
        /\ users[sess[t].u].account_type = "trainer"
        /\ Count(trainers, sess[t].u) = 0

\* C17 as claimed: every subscribe_to_plan call ends with one of the three results
\* "Subscription successful!", "Already subscribed to this plan", "Plan not found".
C17_SubscribeTypedResults ==
    ret.op = "subscribe_to_plan"
       => ret.res \in {"pending", "Subscription successful!",
                       "Already subscribed to this plan", "Plan not found"}

\* The INSERT of the call that lost the race was refused and the call ended by
\* raising, while the winner's row is stored.
C17_Witness ==
    /\ ret.op = "subscribe_to_plan" /\ ret.stmt = "insert"
    /\ ret.res = "raise IntegrityError"
    /\ \E h \in subLog : h.user_id = ret.u /\ h.plan_id = ret.p

\* The step ended a subscribe_to_plan(u, p) with "Plan not found".
PlanNotFound(u, p) ==
    /\ ret'.op = "subscribe_to_plan" /\ ret'.res = "Plan not found"
    /\ ret'.u = u /\ ret'.p = p

\* C20 as claimed: "Plan not found" is returned only while no row of (u, p) is
\* stored and the plan is not stored.
C20_PlanNotFoundOnlyWithoutRow ==
    [][\A u \in DOMAIN users, p \in PlanIds :
         PlanNotFound(u, p) => SubRows(u, p) = {} /\ p \notin DOMAIN plans]_vars

\* C20: a subscribe_to_plan(u, p) that finds a row of (u, p) returns "Already
\* subscribed to this plan", whether the plan is stored or not; only a call whose
\* own check found no row goes on to look the plan up, and it returns "Plan not
\* found" only when the plan is not stored then; both leave the store as it is.
C20_SubscriptionCheckedFirst ==
    [][\A u \in DOMAIN users, p \in PlanIds :
         /\ (SubscribeStep("select_sub", u, p) /\ SubRows(u, p) # {})
               => /\ ret'.res = "Already subscribed to this plan"
                  /\ UNCHANGED store
         /\ \A t \in Sessions :
               (sess'[t].pc = "sub_plan" /\ sess[t].pc # "sub_plan"
                   /\ sess'[t].u = u /\ sess'[t].p = p)
                  => SubscribeStep("select_sub", u, p) /\ SubRows(u, p) = {}
         /\ PlanNotFound(u, p)
               => /\ p \notin DOMAIN plans
                  /\ \E t \in Sessions :
                        /\ sess[t].pc = "sub_plan" /\ sess[t].u = u /\ sess[t].p = p
                        /\ sess'[t] = Idle
                  /\ UNCHANGED store]_vars

\* A call was refused for the row of a plan that has been deleted since.
C20_Witness ==
    /\ ret.op = "subscribe_to_plan" /\ ret.res = "Already subscribed to this plan"
    /\ ret.p \notin DOMAIN plans
    /\ SubRows(ret.u, ret.p) # {}

\* The step calls handler op again with the arguments u and p of the call that
\* ended in the step before it.
Retried(op) ==
    /\ ret.op = op /\ ret.res # "pending"
    /\ ret'.op = op /\ ret'.u = ret.u /\ ret'.p = ret.p

\* The retry of send_message appends a second row like the first one's.
SendRetryDuplicates ==
    Retried("send_message")
       => /\ Len(messages') = Len(messages) + 1
          /\ messages'[Len(messages')] = messages[Len(messages)]
          /\ \A i \in DOMAIN messages : messages'[i] = messages[i]

\* The retries of every handler but verify_user and send_message leave the store
\* as the first call left it.
RetriesWithoutEffect ==
    /\ (/\ ret.op = "create_user" /\ ret.res # "pending"
        /\ ret'.op = "create_user" /\ ret'.email = ret.email)
          => /\ ret'.res = "Email already exists!"
             /\ UNCHANGED store
             /\ \A i \in TokenRows(ret.tok) :
                   users'[i].auth_token = ret.tok /\ users'[i].token_expiry > now'
    /\ (Retried("verify_token") /\ ret'.tok = ret.tok)
          => UNCHANGED store /\ ret'.res = ret.res
    /\ (Retried("subscribe_to_plan") /\ ret'.stmt = "select_sub")
          => /\ UNCHANGED store
             /\ ret.res \in {"Subscription successful!", "Already subscribed to this plan"}
                   => ret'.res = "Already subscribed to this plan"
    /\ (ret'.op = "subscribe_to_plan" /\ ret'.res = "Subscription successful!")
          => SubRows(ret'.u, ret'.p) = {}
    /\ Retried("follow_trainer")
          => UNCHANGED store /\ ret'.res = "Already following this trainer"
    /\ Retried("unfollow_trainer")
          => UNCHANGED store /\ ret'.res = "False"
    /\ Retried("mark_messages_read") => UNCHANGED store

\* C16 as claimed: a second call with the same arguments, right after the first,
\* leaves the store as the first left it, for create_user, verify_user,
\* verify_token, subscribe_to_plan, follow_trainer, unfollow_trainer and
\* mark_messages_read; a second send_message appends a second row.
C16_RetriesIdempotent ==
    [][/\ RetriesWithoutEffect
       /\ (/\ ret.op = "verify_user" /\ ret'.op = "verify_user"
           /\ ret'.email = ret.email /\ ret'.res = ret.res)
             => UNCHANGED store
       /\ SendRetryDuplicates]_vars

\* C16: the same, but for verify_user: the retry of a login that matched writes a
\* new token, and the token the first call returned no longer verifies; the retry
\* of a login that did not match changes nothing.
C16_RetriesIdempotentButLogin ==
    [][/\ RetriesWithoutEffect
       /\ (/\ ret.op = "verify_user" /\ ret'.op = "verify_user"
           /\ ret'.email = ret.email /\ ret'.res = ret.res)
             => IF ret.res = "ok"
                THEN /\ users'[ret.u].auth_token # ret.tok
                     /\ \A i \in DOMAIN users' : users'[i].auth_token # ret.tok
                     /\ users'[ret.u].auth_token = ret'.tok
                ELSE UNCHANGED store
       /\ SendRetryDuplicates]_vars

\* A send_message was just retried and the table ends with the two rows, while a
\* subscription and a follow edge are stored.
C16_Witness ==
    /\ ret.op = "send_message" /\ ret.again
    /\ Len(messages) >= 2
    /\ messages[Len(messages)] = messages[Len(messages) - 1]
    /\ subs # EmptyBag /\ followers # EmptyBag

\* The latest token written for the account of tokLog[k].
LatestToken(k) == \A l \in DOMAIN tokLog : l > k => tokLog[l].uid # tokLog[k].uid

\* C18: a logout writes st.session_state of its session and nothing else; the token
\* last written for a user verifies until its expiry whatever sessions log out.
C18_LogoutClientLocal ==
    /\ [][ret'.op = "logout"
            => /\ UNCHANGED <<store, now, nextToken, tokLog>>
               /\ \E t \in Sessions :
                     /\ client[t].logged_in /\ client'[t] = LoggedOut
                     /\ \A s \in Sessions \ {t} : client'[s] = client[s]]_vars
    /\ [](\A k \in DOMAIN tokLog :
            (LatestToken(k) /\ now < tokLog[k].at + TokenDays)
               => verify_token(tokLog[k].tok).id = tokLog[k].uid)

\* A session has just logged out, days after its login, and the token of that
\* login still verifies.
C18_Witness ==
    /\ ret.op = "logout"
    /\ \E k \in DOMAIN tokLog :
          /\ tokLog[k].tok = ret.tok /\ tokLog[k].by = "login" /\ tokLog[k].at < now
    /\ verify_token(ret.tok).id = ret.u
    /\ \A t \in Sessions : ~ client[t].logged_in

\* C19: verify_token writes nothing; a stored auth_token or token_expiry changes
\* only in a verify_user that matched, and a users row appears only in create_user,
\* each writing token_expiry = now + 7 days.
C19_NoSlidingExpiry ==
    [][/\ ret'.op = "verify_token" => UNCHANGED <<store, nextToken, tokLog>>
       /\ \A i \in DOMAIN users :
             /\ i \in DOMAIN users'
             /\ (\/ users'[i].token_expiry # users[i].token_expiry
                 \/ users'[i].auth_token # users[i].auth_token)
                   => /\ ret'.op = "verify_user" /\ ret'.res = "ok" /\ ret'.u = i
                      /\ users'[i].token_expiry = now + TokenDays
       /\ \A i \in (DOMAIN users') \ (DOMAIN users) :
             /\ ret'.op = "create_user"
             /\ users'[i].token_expiry = now + TokenDays]_vars

\* A token was just looked up and found, days after the login that wrote it, and
\* its expiry is still the login's.
C19_Witness ==
    /\ ret.op = "verify_token" /\ ret.res = "ok"
    /\ \E k \in DOMAIN tokLog :
          /\ tokLog[k].tok = ret.tok /\ tokLog[k].by = "login" /\ tokLog[k].at < now
          /\ users[ret.u].token_expiry = tokLog[k].at + TokenDays

\* C21: unfollow_trainer(u, tr) returns True exactly when the edge (u, tr) was in the
\* followers table before the call, and then that edge and no other is gone; when
\* the edge was not there it returns False and leaves the table as it was.
C21_UnfollowReturnsExisted ==
    [][\A u, tr \in DOMAIN users :
         UnfollowCalled(u, tr)
            => IF Count(followers, <<u, tr>>) > 0
               THEN /\ ret'.res = "True"
                    /\ Count(followers', <<u, tr>>) = 0
                    /\ \A f \in (DOMAIN users) \X (DOMAIN users) :
                          f # <<u, tr>> => Count(followers', f) = Count(followers, f)
               ELSE /\ ret'.res = "False"
                    /\ followers' = followers]_vars

\* An unfollow of an edge that was not there has just returned False while the
\* same user's other edge and the trainer's other follower stayed in the table.
C21_Witness ==
    /\ ret.op = "unfollow_trainer" /\ ret.res = "False"
    /\ \E tr \in DOMAIN users : tr # ret.p /\ Count(followers, <<ret.u, tr>>) = 1
    /\ \E u \in DOMAIN users : u # ret.u /\ Count(followers, <<u, ret.p>>) = 1

\* C22: mark_messages_read(u, s) sets is_read on exactly the messages sent by s to
\* u; every other message (from u to s, to u from another sender, between others)
\* keeps every field, so that afterwards get_unread_count(u) is the number of
\* unread messages to u from senders other than s.
C22_MarkReadFrame ==
    [][ret'.op = "mark_messages_read"
          => /\ Len(messages') = Len(messages)
             /\ \A i \in DOMAIN messages :
                   messages'[i] =
                      IF /\ messages[i].receiver_id = ret'.u
                         /\ messages[i].sender_id = ret'.p
                      THEN [messages[i] EXCEPT !.is_read = 1]
                      ELSE messages[i]
             /\ UnreadAfter(ret'.u) =
                   Cardinality({i \in DOMAIN messages :
                                   /\ messages[i].receiver_id = ret'.u
                                   /\ messages[i].is_read = 0
                                   /\ messages[i].sender_id # ret'.p})]_vars

\* mark_messages_read(u, s) has run: a message from s to u is read, a message from
\* u to s and a message to u from another sender are still unread.
C22_Witness ==
    /\ ret.op = "mark_messages_read"
    /\ \E i, j, k \in DOMAIN messages :
          /\ messages[i].sender_id = ret.p /\ messages[i].receiver_id = ret.u
          /\ messages[i].is_read = 1
          /\ messages[j].sender_id = ret.u /\ messages[j].receiver_id = ret.p
          /\ messages[j].is_read = 0
          /\ messages[k].receiver_id = ret.u /\ messages[k].sender_id # ret.p
          /\ messages[k].is_read = 0

\* C26: get_unread_count(u) is in every state the number of messages whose receiver
\* is u and that are not read; a send_message(s, r, body) appends one message, from
\* s to r and unread, keeps every message that was there, raises
\* get_unread_count(r) by one and leaves every other user's count as it was.
C26_UnreadCount ==
    /\ [](\A u \in DOMAIN users :
             get_unread_count(u) =
                Len(SelectSeq(messages,
                              LAMBDA m : m.receiver_id = u /\ m.is_read # 1)))
    /\ [][ret'.op = "send_message"
             => /\ Len(messages') = Len(messages) + 1
                /\ SubSeq(messages', 1, Len(messages)) = messages
                /\ messages'[Len(messages')].sender_id = ret'.u
                /\ messages'[Len(messages')].receiver_id = ret'.p
                /\ messages'[Len(messages')].is_read = 0
                /\ \A u \in DOMAIN users :
                      UnreadAfter(u) = get_unread_count(u)
                                          + (IF u = ret'.p THEN 1 ELSE 0)]_vars

\* A message has just been sent to a user who already had a read and an unread
\* message: that user's count is two out of three received.
C26_Witness ==
    /\ ret.op = "send_message"
    /\ get_unread_count(ret.p) = 2
    /\ \E i \in DOMAIN messages :
          messages[i].receiver_id = ret.p /\ messages[i].is_read = 1

\* The subscriptions table changes only by the INSERT of one row of the call's
\* (user_id, plan_id), dated from today; every row that was there stays as it was.
SubscriptionsInsertOnly ==
    subs' # subs
       => \E r \in DOMAIN subs' :
             /\ subs' = Insert(subs, r)
             /\ SubscribeStep("insert", r.user_id, r.plan_id)
             /\ r.start_date = now

\* C23 as stated: a subscription row is created with start_date = today and
\* end_date = start_date + the duration_days the plan has when the row is created,
\* and after that no step changes or removes it, update_fitness_plan and
\* delete_fitness_plan of its plan included.
C23_InsertOnly ==
    [][/\ SubscriptionsInsertOnly
       /\ subs' # subs
             => \E r \in DOMAIN subs' :
                   /\ subs' = Insert(subs, r)
                   /\ r.plan_id \in DOMAIN plans
                   /\ r.end_date = r.start_date + plans[r.plan_id].duration_days]_vars

\* C23, amended: the row's end_date is start_date + the duration_days that the
\* call's own SELECT of the plan returned, which is the plan's duration_days when
\* that SELECT runs; the rest is as stated.
C23_InsertOnlyDurationRead ==
    [][/\ SubscriptionsInsertOnly
       /\ subs' # subs
             => \E r \in DOMAIN subs', t \in Sessions :
                   /\ subs' = Insert(subs, r)
                   /\ sess[t].pc = "sub_insert" /\ sess'[t].pc = "idle"
                   /\ r.end_date = r.start_date + sess[t].dur
       /\ \A t \in Sessions :
             (sess[t].pc = "sub_plan" /\ sess'[t].pc = "sub_insert")
                => /\ sess[t].p \in DOMAIN plans
                   /\ sess'[t].dur = plans[sess[t].p].duration_days]_vars

\* The owner has just deleted a plan whose duration had been changed after a
\* subscription to it: the row is still there with the dates it was created with.
C23_Witness ==
    /\ ret.op = "delete_fitness_plan" /\ ret.res = "True"
    /\ \E h \in subLog :
          /\ h.plan_id = ret.p /\ h.duration_days = 1 /\ now > h.start_date
          /\ Count(subs, [user_id |-> h.user_id, plan_id |-> h.plan_id,
                          start_date |-> h.start_date,
                          end_date |-> h.start_date + 1]) = 1

PlanCall(tr, p) ==
    /\ ret'.op \in {"update_fitness_plan", "delete_fitness_plan"}
    /\ ret'.u = tr /\ ret'.p = p

\* C24: update_fitness_plan and delete_fitness_plan called with a trainer_id that
\* is not the plan's return False and leave the plans table as it was; a plan
\* changes or goes only in a call by its own trainer_id; and no step changes the
\* trainer_id of a plan.
C24_OnlyOwnerMutates ==
    [][/\ \A p \in DOMAIN plans, tr \in DOMAIN users :
             (PlanCall(tr, p) /\ plans[p].trainer_id # tr)
                => ret'.res = "False" /\ plans' = plans
       /\ \A p \in DOMAIN plans :
             (p \notin DOMAIN plans' \/ plans'[p] # plans[p])
                => PlanCall(plans[p].trainer_id, p) /\ ret'.res = "True"
       /\ \A p \in DOMAIN plans \cap DOMAIN plans' :
             plans'[p].trainer_id = plans[p].trainer_id]_vars

\* A trainer who has a plan of their own has just called update_fitness_plan on the
\* other trainer's plan, and it returned False.
C24_Witness ==
    /\ ret.op = "update_fitness_plan" /\ ret.res = "False"
    /\ ret.p \in DOMAIN plans
    /\ plans[ret.p].trainer_id # ret.u
    /\ plans[ret.p].duration_days = 1
    /\ \E q \in DOMAIN plans : plans[q].trainer_id = ret.u

\* C27: a verify_user that returns None (unknown email or wrong password) leaves
\* every table as it was, so that the token each user holds verifies as before; a
\* verify_user that succeeds for user U changes U's auth_token and token_expiry,
\* no other field of U's row, no other user's row and no other table.
C27_VerifyUserFrame ==
    [][ret'.op = "verify_user"
          => /\ ret'.res = "None" => (store' = store /\ now' = now)
             /\ ret'.res = "ok"
                   => /\ ret'.u \in DOMAIN users
                      /\ DOMAIN users' = DOMAIN users
                      /\ \A i \in DOMAIN users : i # ret'.u => users'[i] = users[i]
                      /\ users'[ret'.u] =
                            [users[ret'.u] EXCEPT
                                !.auth_token = users'[ret'.u].auth_token,
                                !.token_expiry = users'[ret'.u].token_expiry]
                      /\ UNCHANGED <<trainers, plans, nextPlanId, subs, followers,
                                     messages>>]_vars

\* A login with a wrong password has just failed for a user who had logged in
\* before: that user's token and the other user's token both still verify.
C27_Witness ==
    /\ ret.op = "verify_user" /\ ret.res = "None"
    /\ Len(users) = 2
    /\ \E u \in DOMAIN users :
          /\ users[u].email = ret.email
          /\ \E k \in DOMAIN tokLog : tokLog[k].uid = u /\ tokLog[k].by = "login"
    /\ \A u \in DOMAIN users : verify_token(users[u].auth_token) # NoView

\* C28: for every subscription the My Subscriptions tab shows, on every day, the
\* badge is "Expired" exactly when is_subscribed(user, plan) is false and
\* "N days left" exactly when it is true, the day equal to end_date included.
C28_BadgeAgreesWithIsSubscribed ==
    \A u \in DOMAIN users : \A r \in get_user_subscriptions(u) :
       /\ SubscriptionBadge(r) = "Expired" <=> ~ is_subscribed(u, r.plan_id)
       /\ SubscriptionBadge(r) = "days left" <=> is_subscribed(u, r.plan_id)

\* A subscription is shown on the day equal to its end_date.
C28_Witness ==
    \E u \in DOMAIN users : \E r \in get_user_subscriptions(u) :
       /\ r.end_date = now
       /\ r.start_date < now

\* C30: when the Browse Plans tab offers Subscribe for a plan to a user, a
\* subscribe_to_plan(user, plan) called in that state is not refused.
C30_OfferedSubscribeSucceeds ==
    [][\A u \in DOMAIN users, p \in DOMAIN plans :
         (SubscribeStep("select_sub", u, p) /\ OffersSubscribe(u, p))
            => ret'.res = "pending"]_vars

\* subscribe_to_plan has just answered "Already subscribed to this plan" for a plan
\* whose Subscribe button the tab draws for that user.
C30_Witness ==
    /\ ret.op = "subscribe_to_plan" /\ ret.res = "Already subscribed to this plan"
    /\ OffersSubscribe(ret.u, ret.p)

\* C25: a session that is not logged in holds no user; a signup attempt, whatever
\* its outcome, leaves logged_in and user of every session as they were; and a
\* session becomes logged in only in a verify_user that succeeded, called from the
\* login page, and then holds the user that call matched.
C25_SignupNeverLogsIn ==
    /\ [](\A t \in Sessions : ~ client[t].logged_in => client[t].user = NoUser)
    /\ [][\A t \in Sessions :
            /\ ret'.op \in {"create_user", "show_signup_page"}
                  => /\ client'[t].logged_in = client[t].logged_in
                     /\ client'[t].user = client[t].user
            /\ (~ client[t].logged_in /\ client'[t].logged_in)
                  => /\ ret'.op = "verify_user" /\ ret'.res = "ok"
                     /\ client[t].page = "login"
                     /\ client'[t].user.id = ret'.u]_vars

\* A trainer's signup has just succeeded: the session is on the login page, not
\* logged in, while the token the signup made verifies.
C25_Witness ==
    /\ ret.op = "create_user" /\ ret.stmt = "insert_trainer" /\ ret.res = "ok"
    /\ verify_token(ret.tok) # NoView
    /\ \A t \in Sessions : ~ client[t].logged_in
    /\ \E t \in Sessions : client[t].page = "login"

\* C29: a mark_messages_read that marks a message as read is for a chat that the
\* user logged in to the session chose: after a logout and the login of another
\* user V in the same session, no message to V is marked read before V has chosen
\* a chat partner.
C29_MarkReadOnlyOwnChat ==
    [][(ret'.op = "mark_messages_read" /\ messages' # messages)
          => \E t \in Sessions :
                /\ client[t].logged_in /\ client[t].user.id = ret'.u
                /\ client[t].chat_with = ret'.p
                /\ client[t].chat_by = ret'.u]_vars

\* The Chat tab of a session has just marked as read a message to the user logged
\* in, from the partner that another user had chosen in that session.
C29_Witness ==
    /\ ret.op = "mark_messages_read"
    /\ \E t \in Sessions :
          /\ client[t].logged_in /\ client[t].user.id = ret.u
          /\ client[t].chat_with = ret.p
          /\ client[t].chat_by \notin {0, ret.u}
    /\ \E i \in DOMAIN messages :
          /\ messages[i].sender_id = ret.p /\ messages[i].receiver_id = ret.u
          /\ messages[i].is_read = 1

====
